---- MODULE Spec2Model ----
(***************************************************************************)
(* A model of main.py: a bit-level simulation of a single-accumulator      *)
(* computer (Transistor, Register, Bus, RAM, ALU, CU), its program loader  *)
(* (main) and its driver (clock).                                          *)
(*                                                                         *)
(* Python integers are unbounded and its bitwise operators act on the      *)
(* infinite two's-complement form of a number; BitAnd, BitOr, BitXor,      *)
(* BitNot, ShiftLeft and ShiftRight below compute exactly that.  TLC's     *)
(* \div and % round toward minus infinity, as Python's // and % do.        *)
(*                                                                         *)
(* A Register (and a RAM cell) is a list of BIT_RESOLUTION Transistors;    *)
(* the model keeps it as the natural number whose i-th binary digit is the *)
(* state of Transistor i.                                                  *)
(***************************************************************************)
EXTENDS Integers, Sequences, FiniteSets, TLC

VARIABLES
    stdin,                  \* the lines input() has not consumed yet
    at,                     \* where control is: "load", "store", "fetch", "decode", "execute",
                            \* "exit", "blocked" (in a Bus.read that never returns), or "test" (direct calls)
    raised,                 \* the exception that ended the process ("" while it runs)
    stdout,                 \* the values printed by OUT
    bus,                    \* Bus.data, a FIFO queue
    pc, mar, mdr, cir, accumulator,     \* the five Registers of the CU
    ram,                    \* RAM.cells
    variables,              \* CU.variables: name -> address
    next_variable_address,  \* CU.next_variable_address
    program,                \* main's list of instruction words
    pipeline_fetch,         \* <<>> is None, <<w>> holds the word w
    pipeline_decode,        \* <<>> is None, <<opcode, operand>> otherwise
    arg1, arg2, addr,       \* the arguments of a direct call of a function or method
    ret,                    \* the last direct call and what it returned: <<name, value>>
    written, readback       \* the values passed to Bus.write and returned by Bus.read in direct calls

vars == <<stdin, at, raised, stdout, bus, pc, mar, mdr, cir, accumulator, ram,
          variables, next_variable_address, program, pipeline_fetch,
          pipeline_decode, arg1, arg2, addr, ret, written, readback>>

cuVars == <<bus, pc, mar, mdr, cir, accumulator, ram, variables,
            next_variable_address, pipeline_fetch, pipeline_decode>>
runVars == <<stdin, at, raised, stdout, program>>
callVars == <<arg1, arg2, addr, ret, written, readback>>

----------------------------------------------------------------------------
(* Constants of main.py *)

BIT_RESOLUTION == 20
RAM_SIZE == 100

(* Bounds of the model *)

\* how far around each multiple of 2^19 the sampled integers reach
MaxDelta == 1

----------------------------------------------------------------------------
(* Python's integer operators *)

ShiftLeft(a, n) == a * (2 ^ n)
ShiftRight(a, n) == a \div (2 ^ n)
BitNot(a) == (-a) - 1

RECURSIVE BitAnd(_, _)
BitAnd(a, b) ==
    IF a = 0 \/ b = 0 THEN 0
    ELSE IF a = -1 THEN b
    ELSE IF b = -1 THEN a
    ELSE ((a % 2) * (b % 2)) + 2 * BitAnd(a \div 2, b \div 2)

RECURSIVE BitOr(_, _)
BitOr(a, b) ==
    IF a = 0 THEN b
    ELSE IF b = 0 THEN a
    ELSE IF a = -1 \/ b = -1 THEN -1
    ELSE (IF (a % 2) + (b % 2) > 0 THEN 1 ELSE 0) + 2 * BitOr(a \div 2, b \div 2)

RECURSIVE BitXor(_, _)
BitXor(a, b) ==
    IF a = 0 THEN b
    ELSE IF b = 0 THEN a
    ELSE IF a = -1 THEN BitNot(b)
    ELSE IF b = -1 THEN BitNot(a)
    ELSE (((a % 2) + (b % 2)) % 2) + 2 * BitXor(a \div 2, b \div 2)

MAX_VALUE == (2 ^ BIT_RESOLUTION) - 1

----------------------------------------------------------------------------
(* Word conversions *)

\* a to_signed that tests the sign bit one place too high
to_signed_wrongbit(value) ==
    IF value >= ShiftLeft(1, BIT_RESOLUTION) THEN value - ShiftLeft(1, BIT_RESOLUTION)
    ELSE value

to_signed(value) ==
    IF value >= ShiftLeft(1, BIT_RESOLUTION - 1)
    THEN value - ShiftLeft(1, BIT_RESOLUTION)
    ELSE value

to_unsigned(value) ==
    LET v == IF value < 0 THEN value + ShiftLeft(1, BIT_RESOLUTION) ELSE value
    IN  BitAnd(v, MAX_VALUE)

----------------------------------------------------------------------------
(* Transistor, Register, RAM: storage *)

Transistor_set(state) == BitAnd(state, 1)

\* Transistor i of a Register or RAM cell kept as the number `data`
Transistor_get(data, i) == (data \div (2 ^ i)) % 2

\* the loop of Register.set and RAM.set: Transistor i takes (value >> i) & 1
RECURSIVE StoreBits(_, _)
StoreBits(value, i) ==
    IF i = BIT_RESOLUTION THEN 0
    ELSE ShiftLeft(Transistor_set(BitAnd(ShiftRight(value, i), 1)), i)
         + StoreBits(value, i + 1)

\* the loop of Register.get and RAM.get: value |= (Transistor i << i)
RECURSIVE LoadBits(_, _, _)
LoadBits(data, i, value) ==
    IF i = BIT_RESOLUTION THEN value
    ELSE LoadBits(data, i + 1, BitOr(value, ShiftLeft(Transistor_get(data, i), i)))

\* Register.set: the Register's new data
Register_set(value) == StoreBits(to_unsigned(value), 0)

\* a Register.get that returns the unsigned pattern
Register_get_unsigned(data) == LoadBits(data, 0, 0)

\* Register.get of a Register whose data is `data`
Register_get(data) == to_signed(LoadBits(data, 0, 0))

\* Python's list indexing cells[address]: a negative index counts from the end
IndexError(address) == address >= RAM_SIZE \/ address < -RAM_SIZE
ListIndex(address) == IF address < 0 THEN address + RAM_SIZE ELSE address

RAM_get(cells, address) == to_signed(LoadBits(cells[ListIndex(address)], 0, 0))

\* a RAM.set that writes the cell after the addressed one
RAM_set_offbyone(cells, address, value) ==
    [cells EXCEPT ![(ListIndex(address) + 1) % RAM_SIZE] = StoreBits(to_unsigned(value), 0)]

RAM_set(cells, address, value) ==
    [cells EXCEPT ![ListIndex(address)] = StoreBits(to_unsigned(value), 0)]

----------------------------------------------------------------------------
(* Bus: a queue.Queue; get() on an empty queue blocks the caller *)

Bus_write(data, value) == Append(data, value)

\* a Bus.read that takes the newest value instead of the oldest
Bus_read_lifo(data) ==
    [value |-> data[Len(data)], data |-> SubSeq(data, 1, Len(data) - 1)]

\* Bus.read on a non-empty queue: the value returned and the queue left
Bus_read(data) == [value |-> Head(data), data |-> Tail(data)]

----------------------------------------------------------------------------
(* ALU *)

\* an add that forgets to wrap the sum
ALU_add_nowrap(val1, val2) == val1 + val2

ALU_add(val1, val2) ==
    to_signed(BitAnd(to_unsigned(val1) + to_unsigned(val2), MAX_VALUE))

ALU_sub(val1, val2) ==
    to_signed(BitAnd(to_unsigned(val1) - to_unsigned(val2), MAX_VALUE))

\* an and_ that combines the unsigned patterns and does not convert back
ALU_and_unsigned(val1, val2) == BitAnd(to_unsigned(val1), to_unsigned(val2))

ALU_and_(val1, val2) == BitAnd(val1, val2)

ALU_or_(val1, val2) == BitOr(val1, val2)

ALU_not_(val1) == to_signed(BitNot(to_unsigned(val1)))

ALU_xor_(val1, val2) == BitXor(val1, val2)

----------------------------------------------------------------------------
(* Python strings: a string is the sequence of its characters *)

Digits == <<"0", "1", "2", "3", "4", "5", "6", "7", "8", "9">>
Letters ==
    {"A", "B", "C", "D", "E", "F", "G", "H", "I", "J", "K", "L", "M",
     "N", "O", "P", "Q", "R", "S", "T", "U", "V", "W", "X", "Y", "Z",
     "a", "b", "c", "d", "e", "f", "g", "h", "i", "j", "k", "l", "m",
     "n", "o", "p", "q", "r", "s", "t", "u", "v", "w", "x", "y", "z"}

IsDigit(c) == \E i \in 1 .. 10 : Digits[i] = c
DigitValue(c) == (CHOOSE i \in 1 .. 10 : Digits[i] = c) - 1

\* str.isalnum(): not empty, and every character a letter or a digit
isalnum(str) ==
    /\ Len(str) > 0
    /\ \A i \in 1 .. Len(str) : IsDigit(str[i]) \/ str[i] \in Letters

\* str.split(" "): the pieces between single spaces, empty pieces kept
RECURSIVE SplitFrom(_, _, _)
SplitFrom(str, i, piece) ==
    IF i > Len(str) THEN <<piece>>
    ELSE IF str[i] = " " THEN <<piece>> \o SplitFrom(str, i + 1, << >>)
    ELSE SplitFrom(str, i + 1, Append(piece, str[i]))

split(str) == SplitFrom(str, 1, << >>)

\* int(str) of a string of an optional sign and decimal digits; any other
\* string makes int() raise ValueError
Unsigned(str) == IF Len(str) > 0 /\ str[1] \in {"+", "-"} THEN Tail(str) ELSE str

IsIntLiteral(str) ==
    /\ Len(Unsigned(str)) > 0
    /\ \A i \in 1 .. Len(Unsigned(str)) : IsDigit(Unsigned(str)[i])

RECURSIVE DigitsValue(_, _)
DigitsValue(str, acc) ==
    IF str = << >> THEN acc
    ELSE DigitsValue(Tail(str), (10 * acc) + DigitValue(Head(str)))

int(str) ==
    IF Len(str) > 0 /\ str[1] = "-"
    THEN -DigitsValue(Unsigned(str), 0)
    ELSE DigitsValue(Unsigned(str), 0)

\* what a user types for the integer n: its decimal digits, "-" before a
\* negative one
RECURSIVE DecimalDigits(_)
DecimalDigits(n) ==
    IF n < 10 THEN <<Digits[n + 1]>>
    ELSE Append(DecimalDigits(n \div 10), Digits[(n % 10) + 1])

Typed(n) == IF n < 0 THEN <<"-">> \o DecimalDigits(-n) ELSE DecimalDigits(n)

\* words joined by single spaces into one line
RECURSIVE Line(_)
Line(words) ==
    IF Len(words) = 1 THEN words[1]
    ELSE words[1] \o <<" ">> \o Line(Tail(words))

LDA == <<"L", "D", "A">>
STA == <<"S", "T", "A">>
ADD == <<"A", "D", "D">>
SUB == <<"S", "U", "B">>
AND == <<"A", "N", "D">>
OR  == <<"O", "R">>
NOT == <<"N", "O", "T">>
XOR == <<"X", "O", "R">>
INP == <<"I", "N", "P">>
OUT == <<"O", "U", "T">>
HLT == <<"H", "L", "T">>
DAT == <<"D", "A", "T">>
END == <<"e", "n", "d">>

\* the dict instructions
instructions ==
    [m \in {LDA, STA, ADD, SUB, AND, OR, NOT, XOR, INP, OUT, HLT} |->
        CASE m = LDA -> 1 [] m = STA -> 2 [] m = ADD -> 3 [] m = SUB -> 4
          [] m = AND -> 5 [] m = OR -> 6 [] m = NOT -> 7 [] m = XOR -> 8
          [] m = INP -> 9 [] m = OUT -> 10 [] m = HLT -> 11]

----------------------------------------------------------------------------
(* The state after CU() *)

NoneValue == << >>

InitCU ==
    /\ bus = << >>
    /\ pc = 0 /\ mar = 0 /\ mdr = 0 /\ cir = 0 /\ accumulator = 0
    /\ ram = [a \in 0 .. RAM_SIZE - 1 |-> 0]
    /\ variables = << >>
    /\ next_variable_address = RAM_SIZE - 1
    /\ pipeline_fetch = NoneValue
    /\ pipeline_decode = NoneValue

----------------------------------------------------------------------------
(* The CU's stages.  A stage is a sequence of calls; each operator below    *)
(* takes the machine as the record m and returns it after the call.  m.stop *)
(* is "" while the stage runs, "blocked" once a Bus.read found the queue    *)
(* empty (Queue.get() never returns) and the exception once one is raised;  *)
(* a call made after that does nothing.  m.got is the value the last        *)
(* Bus.read returned.                                                       *)

Machine ==
    [bus |-> bus, pc |-> pc, mar |-> mar, mdr |-> mdr, cir |-> cir,
     accumulator |-> accumulator, ram |-> ram,
     pipeline_fetch |-> pipeline_fetch, pipeline_decode |-> pipeline_decode,
     stdin |-> stdin, stdout |-> stdout, stop |-> "", got |-> 0]

Halt == "SystemExit: Halt"
InvalidOpcode == "ValueError: Invalid opcode"
InvalidLiteral == "ValueError: invalid literal for int()"
OutOfRange == "IndexError: list index out of range"
KeyError == "KeyError"
EOFError == "EOFError"

\* self.bus.write(value)
M_bus_write(m, value) ==
    IF m.stop # "" THEN m
    ELSE [m EXCEPT !.bus = Bus_write(m.bus, value)]

\* self.bus.read()
M_bus_read(m) ==
    IF m.stop # "" THEN m
    ELSE IF m.bus = << >> THEN [m EXCEPT !.stop = "blocked"]
    ELSE [m EXCEPT !.bus = Bus_read(m.bus).data, !.got = Bus_read(m.bus).value]

\* register r .set(value)
M_Register_set(m, r, value) ==
    IF m.stop # "" THEN m
    ELSE [m EXCEPT ![r] = Register_set(value)]

\* Register.read_from_bus of register r
Register_read_from_bus(m, r) ==
    LET m1 == M_bus_read(m)
    IN  M_Register_set(m1, r, m1.got)

\* a RAM.read_from_bus that answers 0 for an address that is no index of cells
RAM_read_from_bus_unchecked(m) ==
    LET m1 == M_bus_read(m)
        address == m1.got
    IN  IF m1.stop # "" THEN m1
        ELSE M_bus_write(m1, IF IndexError(address) THEN 0 ELSE RAM_get(m1.ram, address))

\* a RAM.read_from_bus that does not answer
RAM_read_from_bus_silent(m) == M_bus_read(m)

RAM_read_from_bus(m) ==
    LET m1 == M_bus_read(m)
        address == m1.got
    IN  IF m1.stop # "" THEN m1
        ELSE IF IndexError(address) THEN [m1 EXCEPT !.stop = OutOfRange]
        ELSE M_bus_write(m1, RAM_get(m1.ram, address))

RAM_write_to_bus(m) ==
    LET m1 == M_bus_read(m)
        address == m1.got
        m2 == M_bus_read(m1)
        value == m2.got
    IN  IF m2.stop # "" THEN m2
        ELSE IF IndexError(address) THEN [m2 EXCEPT !.stop = OutOfRange]
        ELSE [m2 EXCEPT !.ram = RAM_set(m2.ram, address, value)]

\* a fetch whose PC goes back to 0 after the last address
CU_fetch_wraps_pc(m) ==
    LET m1 == M_Register_set(m, "mar", Register_get(m.pc))
        m2 == M_bus_write(m1, Register_get(m1.mar))
        m3 == RAM_read_from_bus(m2)
        m4 == Register_read_from_bus(m3, "mdr")
        m5 == M_Register_set(m4, "pc", (Register_get(m4.pc) + 1) % RAM_SIZE)
    IN  IF m5.stop # "" THEN m5
        ELSE [m5 EXCEPT !.pipeline_fetch = <<Register_get(m5.mdr)>>]

\* a fetch that leaves the PC where it was
CU_fetch_no_increment(m) ==
    LET m1 == M_Register_set(m, "mar", Register_get(m.pc))
        m2 == M_bus_write(m1, Register_get(m1.mar))
        m3 == RAM_read_from_bus(m2)
        m4 == Register_read_from_bus(m3, "mdr")
    IN  IF m4.stop # "" THEN m4
        ELSE [m4 EXCEPT !.pipeline_fetch = <<Register_get(m4.mdr)>>]

CU_fetch(m) ==
    LET m1 == M_Register_set(m, "mar", Register_get(m.pc))
        m2 == M_bus_write(m1, Register_get(m1.mar))
        m3 == RAM_read_from_bus(m2)
        m4 == Register_read_from_bus(m3, "mdr")
        m5 == M_Register_set(m4, "pc", Register_get(m4.pc) + 1)
    IN  IF m5.stop # "" THEN m5
        ELSE [m5 EXCEPT !.pipeline_fetch = <<Register_get(m5.mdr)>>]

\* a decode that leaves the fetched latch occupied
CU_decode_keeps_fetched(m) ==
    IF m.pipeline_fetch # NoneValue
    THEN LET instruction == m.pipeline_fetch[1]
             opcode == BitAnd(ShiftRight(instruction, 16), 15)
             operand == BitAnd(instruction, 65535)
         IN  [m EXCEPT !.pipeline_decode = <<opcode, operand>>]
    ELSE m

\* a decode that does not mask the opcode to four bits
CU_decode_nomask(m) ==
    IF m.pipeline_fetch # NoneValue
    THEN LET instruction == m.pipeline_fetch[1]
             opcode == ShiftRight(instruction, 16)
             operand == BitAnd(instruction, 65535)
         IN  [m EXCEPT !.pipeline_decode = <<opcode, operand>>,
                       !.pipeline_fetch = NoneValue]
    ELSE m

CU_decode(m) ==
    IF m.pipeline_fetch # NoneValue
    THEN LET instruction == m.pipeline_fetch[1]
             opcode == BitAnd(ShiftRight(instruction, 16), 15)
             operand == BitAnd(instruction, 65535)
         IN  [m EXCEPT !.pipeline_decode = <<opcode, operand>>,
                       !.pipeline_fetch = NoneValue]
    ELSE m

\* LDA
Execute_LDA(m, operand) ==
    LET m1 == M_bus_write(m, operand)
        m2 == RAM_read_from_bus(m1)
    IN  Register_read_from_bus(m2, "accumulator")

\* STA
Execute_STA(m, operand) ==
    LET m1 == M_bus_write(m, operand)
        m2 == M_bus_write(m1, Register_get(m1.accumulator))
    IN  RAM_write_to_bus(m2)

\* a dispatch that hands the operands of SUB to the ALU in the other order
ALU_apply_swapped(opcode, val1, val2) ==
    CASE opcode = instructions[ADD] -> ALU_add(val1, val2)
      [] opcode = instructions[SUB] -> ALU_sub(val2, val1)
      [] opcode = instructions[AND] -> ALU_and_(val1, val2)
      [] opcode = instructions[OR] -> ALU_or_(val1, val2)
      [] opcode = instructions[XOR] -> ALU_xor_(val1, val2)

\* ADD, SUB, AND, OR, XOR: the ALU function is chosen by the opcode
ALU_apply(opcode, val1, val2) ==
    CASE opcode = instructions[ADD] -> ALU_add(val1, val2)
      [] opcode = instructions[SUB] -> ALU_sub(val1, val2)
      [] opcode = instructions[AND] -> ALU_and_(val1, val2)
      [] opcode = instructions[OR] -> ALU_or_(val1, val2)
      [] opcode = instructions[XOR] -> ALU_xor_(val1, val2)

Execute_ALU(m, opcode, operand) ==
    LET m1 == M_bus_write(m, operand)
        m2 == RAM_read_from_bus(m1)
        \* the arguments are evaluated left to right: accumulator.get(), then bus.read()
        m3 == M_bus_read(m2)
    IN  M_Register_set(m3, "accumulator",
                       ALU_apply(opcode, Register_get(m2.accumulator), m3.got))

\* a NOT that negates the accumulator
Execute_NOT_negates(m) ==
    M_Register_set(m, "accumulator", -Register_get(m.accumulator))

\* NOT
Execute_NOT(m) ==
    M_Register_set(m, "accumulator", ALU_not_(Register_get(m.accumulator)))

\* INP: int(input())
Execute_INP(m) ==
    IF m.stdin = << >> THEN [m EXCEPT !.stop = EOFError]
    ELSE IF ~IsIntLiteral(Head(m.stdin))
         THEN [m EXCEPT !.stdin = Tail(m.stdin), !.stop = InvalidLiteral]
    ELSE M_Register_set([m EXCEPT !.stdin = Tail(m.stdin)], "accumulator",
                        int(Head(m.stdin)))

\* an OUT that prints nothing
Execute_OUT_silent(m) == m

\* OUT: print("OUT:", accumulator.get())
Execute_OUT(m) == [m EXCEPT !.stdout = Append(m.stdout, Register_get(m.accumulator))]

\* a HLT that lets the clock go on
Execute_HLT_goes_on(m) == m

\* HLT: exit("Halt")
Execute_HLT(m) == [m EXCEPT !.stop = Halt]

\* an unknown opcode treated as NOT
Execute_invalid_as_NOT(m) == Execute_NOT(m)

\* else: raise ValueError("Invalid opcode")
Execute_invalid(m) == [m EXCEPT !.stop = InvalidOpcode]

CU_execute(m) ==
    IF m.pipeline_decode # NoneValue
    THEN LET opcode == m.pipeline_decode[1]
             operand == m.pipeline_decode[2]
             m1 == CASE opcode = instructions[LDA] -> Execute_LDA(m, operand)
                     [] opcode = instructions[STA] -> Execute_STA(m, operand)
                     [] opcode \in {instructions[ADD], instructions[SUB],
                                    instructions[AND], instructions[OR],
                                    instructions[XOR]} -> Execute_ALU(m, opcode, operand)
                     [] opcode = instructions[NOT] -> Execute_NOT(m)
                     [] opcode = instructions[INP] -> Execute_INP(m)
                     [] opcode = instructions[OUT] -> Execute_OUT(m)
                     [] opcode = instructions[HLT] -> Execute_HLT(m)
                     [] OTHER -> Execute_invalid(m)
         IN  IF m1.stop # "" THEN m1
             ELSE [m1 EXCEPT !.pipeline_decode = NoneValue]
    ELSE m

\* the machine after a stage becomes the state; control goes to `next` unless
\* the stage blocked or raised
Commit(m, next) ==
    /\ bus' = m.bus
    /\ pc' = m.pc /\ mar' = m.mar /\ mdr' = m.mdr /\ cir' = m.cir
    /\ accumulator' = m.accumulator
    /\ ram' = m.ram
    /\ pipeline_fetch' = m.pipeline_fetch
    /\ pipeline_decode' = m.pipeline_decode
    /\ stdin' = m.stdin
    /\ stdout' = m.stdout
    /\ raised' = IF m.stop = "blocked" THEN "" ELSE m.stop
    /\ at' = IF m.stop = "" THEN next
             ELSE IF m.stop = "blocked" THEN "blocked"
             ELSE "exit"
    /\ UNCHANGED <<variables, next_variable_address, program, callVars>>

\* clock: cu.fetch(); cu.decode(); cu.execute(); sleep; again
Fetch == at = "fetch" /\ Commit(CU_fetch(Machine), "decode")
Decode == at = "decode" /\ Commit(CU_decode(Machine), "execute")
Execute == at = "execute" /\ Commit(CU_execute(Machine), "fetch")

----------------------------------------------------------------------------
(* main: the loader *)

\* the process ends with the exception e
Raise(e) == at' = "exit" /\ raised' = e

\* variables[name] = address
DictSet(dict, name, address) ==
    [n \in (DOMAIN dict) \cup {name} |-> IF n = name THEN address ELSE dict[n]]

\* the word appended for a line that is not a DAT
InstructionWord(mnemonic, n) ==
    BitOr(ShiftLeft(instructions[mnemonic], 16), BitAnd(n, 65535))

\* one turn of the while loop of main
Load ==
    /\ at = "load"
    /\ UNCHANGED <<bus, pc, mar, mdr, cir, accumulator, pipeline_fetch,
                   pipeline_decode, stdout, callVars>>
    /\ IF stdin = << >>
       THEN /\ Raise(EOFError)
            /\ UNCHANGED <<stdin, ram, variables, next_variable_address, program>>
       ELSE LET x == split(Head(stdin)) IN
            /\ stdin' = Tail(stdin)
            /\ IF x[1] = END
               THEN /\ at' = "store" /\ raised' = raised
                    /\ UNCHANGED <<ram, variables, next_variable_address, program>>
               ELSE IF x[1] = DAT
               THEN /\ program' = program
                    /\ IF Len(x) < 2
                       THEN /\ Raise(OutOfRange)
                            /\ UNCHANGED <<ram, variables, next_variable_address>>
                       ELSE /\ variables' = DictSet(variables, x[2], next_variable_address)
                            /\ IF Len(x) < 3
                               THEN /\ Raise(OutOfRange)
                                    /\ UNCHANGED <<ram, next_variable_address>>
                               ELSE IF ~IsIntLiteral(x[3])
                               THEN /\ Raise(InvalidLiteral)
                                    /\ UNCHANGED <<ram, next_variable_address>>
                               ELSE IF IndexError(next_variable_address)
                               THEN /\ Raise(OutOfRange)
                                    /\ UNCHANGED <<ram, next_variable_address>>
                               ELSE /\ ram' = RAM_set(ram, next_variable_address, int(x[3]))
                                    /\ next_variable_address' = next_variable_address - 1
                                    /\ UNCHANGED <<at, raised>>
               ELSE /\ UNCHANGED <<ram, variables, next_variable_address>>
                    /\ IF x[1] \notin DOMAIN instructions
                       THEN Raise(KeyError) /\ program' = program
                       ELSE IF Len(x) > 1
                       THEN IF isalnum(x[2])
                            THEN IF x[2] \notin DOMAIN variables
                                 THEN Raise(KeyError) /\ program' = program
                                 ELSE /\ program' = Append(program,
                                            InstructionWord(x[1], variables[x[2]]))
                                      /\ UNCHANGED <<at, raised>>
                            ELSE IF ~IsIntLiteral(x[2])
                                 THEN Raise(InvalidLiteral) /\ program' = program
                                 ELSE /\ program' = Append(program,
                                            InstructionWord(x[1], int(x[2])))
                                      /\ UNCHANGED <<at, raised>>
                       ELSE /\ program' = Append(program, ShiftLeft(instructions[x[1]], 16))
                            /\ UNCHANGED <<at, raised>>

\* for i in range(len(program)): cu.ram.set(i, program[i])
\* (turn i writes cell i only, so cell i is what cu.ram.set(i, program[i])
\* leaves there; the loop stops at the first i that is no index of cells)
StoreProgram(cells, words) ==
    [i \in DOMAIN cells |->
        IF i < Len(words) THEN RAM_set(cells, i, words[i + 1])[i] ELSE cells[i]]

\* the for loop of main, then clock(cu)
Store ==
    /\ at = "store"
    /\ ram' = StoreProgram(ram, program)
    /\ IF Len(program) > RAM_SIZE
       THEN Raise(OutOfRange)
       ELSE at' = "fetch" /\ raised' = raised
    /\ UNCHANGED <<bus, pc, mar, mdr, cir, accumulator, variables,
                   next_variable_address, program, pipeline_fetch,
                   pipeline_decode, stdin, stdout, callVars>>

NextRun ==
    \/ Load
    \/ Store
    \/ Fetch
    \/ Decode
    \/ Execute

----------------------------------------------------------------------------
(* Direct calls of the conversions and of the ALU                           *)

\* the signed Words
SignedWords == (-(2 ^ (BIT_RESOLUTION - 1))) .. ((2 ^ (BIT_RESOLUTION - 1)) - 1)

\* the integers sampled as arguments: those within MaxDelta of a multiple of
\* 2^19 between -2^21 and 2^21 (both ends of the signed and of the unsigned
\* range, and integers a whole 2^20 or more outside them)
Samples ==
    { (k * (2 ^ (BIT_RESOLUTION - 1))) + d : k \in -4 .. 4, d \in -MaxDelta .. MaxDelta }

NoCall == [fn |-> "", args |-> << >>, val |-> 0]

InitWord ==
    /\ InitCU
    /\ stdin = << >> /\ at = "test" /\ raised = "" /\ stdout = << >>
    /\ program = << >>
    /\ arg1 \in Samples /\ arg2 \in Samples /\ addr = 0
    /\ ret = NoCall /\ written = << >> /\ readback = << >>

Returns(fn, args, val) ==
    /\ at = "test"
    /\ ret' = [fn |-> fn, args |-> args, val |-> val]
    /\ UNCHANGED <<cuVars, runVars, arg1, arg2, addr, written, readback>>

Call_to_unsigned == Returns("to_unsigned", <<arg1>>, to_unsigned(arg1))
Call_round_trip == Returns("to_signed(to_unsigned)", <<arg1>>, to_signed(to_unsigned(arg1)))
Call_add == Returns("ALU.add", <<arg1, arg2>>, ALU_add(arg1, arg2))
Call_sub == Returns("ALU.sub", <<arg1, arg2>>, ALU_sub(arg1, arg2))
Call_and_ == Returns("ALU.and_", <<arg1, arg2>>, ALU_and_(arg1, arg2))
Call_or_ == Returns("ALU.or_", <<arg1, arg2>>, ALU_or_(arg1, arg2))
Call_not_ == Returns("ALU.not_", <<arg1>>, ALU_not_(arg1))
Call_xor_ == Returns("ALU.xor_", <<arg1, arg2>>, ALU_xor_(arg1, arg2))

NextWord ==
    \/ Call_to_unsigned
    \/ Call_round_trip
    \/ Call_add
    \/ Call_sub
    \/ Call_and_
    \/ Call_or_
    \/ Call_not_
    \/ Call_xor_

SpecWord == InitWord /\ [][NextWord]_vars

\* the signed Word congruent to x modulo 2^20
Wrap(x) ==
    ((x + (2 ^ (BIT_RESOLUTION - 1))) % (2 ^ BIT_RESOLUTION)) - (2 ^ (BIT_RESOLUTION - 1))

\* C1: for every signed Word v, to_signed(to_unsigned(v)) = v
C1_RoundTrip ==
    (ret.fn = "to_signed(to_unsigned)" /\ ret.args[1] \in SignedWords)
        => ret.val = ret.args[1]

C1_Witness ==
    /\ ret.fn = "to_signed(to_unsigned)"
    /\ ret.args[1] = -(2 ^ (BIT_RESOLUTION - 1))
    /\ ret.val = ret.args[1]

\* C3: on signed Words, ALU.add and ALU.sub return the signed Word congruent
\* to the sum and to the difference modulo 2^20; add(2^19-1, 1) = -2^19 and
\* sub(-2^19, 1) = 2^19-1
C3_AddSubWrap ==
    (ret.fn \in {"ALU.add", "ALU.sub"} /\ ret.args[1] \in SignedWords /\ ret.args[2] \in SignedWords)
        => /\ ret.val \in SignedWords
           /\ ret.fn = "ALU.add" => ret.val = Wrap(ret.args[1] + ret.args[2])
           /\ ret.fn = "ALU.sub" => ret.val = Wrap(ret.args[1] - ret.args[2])
           /\ (ret.fn = "ALU.add" /\ ret.args = <<(2 ^ 19) - 1, 1>>) => ret.val = -(2 ^ 19)
           /\ (ret.fn = "ALU.sub" /\ ret.args = <<-(2 ^ 19), 1>>) => ret.val = (2 ^ 19) - 1

C3_Witness ==
    /\ ret.fn = "ALU.sub"
    /\ ret.args = <<-(2 ^ 19), 1>>
    /\ ret.val = (2 ^ 19) - 1

\* C4: on every signed Word a, ALU.not_ returns the signed Word -a-1
C4_NotIsComplement ==
    (ret.fn = "ALU.not_" /\ ret.args[1] \in SignedWords)
        => (ret.val \in SignedWords /\ ret.val = (-ret.args[1]) - 1)

----------------------------------------------------------------------------
(* Direct calls of Register.set/get and of RAM.set/get                      *)

\* number of values a direct call may write besides arg1
MaxOther == 2

OtherValues == { (7 * k) - 1 : k \in 0 .. MaxOther - 1 }

TestAddresses == {0, 1, RAM_SIZE - 1}

InitStore ==
    /\ InitCU
    /\ stdin = << >> /\ at = "test" /\ raised = "" /\ stdout = << >>
    /\ program = << >>
    /\ arg1 \in Samples /\ arg2 \in OtherValues /\ addr \in TestAddresses
    /\ ret = NoCall /\ written = << >> /\ readback = << >>

\* accumulator.set(value); accumulator.get()
Call_Register_set_get ==
    \E value \in {arg1, arg2} :
        /\ at = "test"
        /\ accumulator' = Register_set(value)
        /\ ret' = [fn |-> "Register.set;get", args |-> <<value>>,
                   val |-> Register_get(accumulator')]
        /\ UNCHANGED <<bus, pc, mar, mdr, cir, ram, variables, next_variable_address,
                       pipeline_fetch, pipeline_decode, runVars, arg1, arg2, addr,
                       written, readback>>

\* ram.set(address, value); ram.get(address)
Call_RAM_set_get ==
    \E address \in {addr, 0}, value \in {arg1, arg2} :
        /\ at = "test"
        /\ ~IndexError(address)
        /\ ram' = RAM_set(ram, address, value)
        /\ ret' = [fn |-> "RAM.set;get", args |-> <<address, value>>,
                   val |-> RAM_get(ram', address)]
        /\ UNCHANGED <<bus, pc, mar, mdr, cir, accumulator, variables,
                       next_variable_address, pipeline_fetch, pipeline_decode,
                       runVars, arg1, arg2, addr, written, readback>>

NextStore ==
    \/ Call_Register_set_get
    \/ Call_RAM_set_get

SpecStore == InitStore /\ [][NextStore]_vars

\* C2: Register.set(x) then get() returns the signed Word congruent to x
\* modulo 2^20, for x inside and outside the 20-bit range, and so does
\* RAM.set(a, x) then RAM.get(a); every Register and every RAM cell reads as a
\* signed Word (a cell whose Transistors are all 0 reads as Register_get(0))
C2_SetGetWraps ==
    /\ ret.fn = "Register.set;get" => ret.val = Wrap(ret.args[1])
    /\ ret.fn = "RAM.set;get" => ret.val = Wrap(ret.args[2])
    /\ Register_get(accumulator) \in SignedWords
    /\ Register_get(0) \in SignedWords
    /\ \A a \in 0 .. RAM_SIZE - 1 : ram[a] = 0 \/ RAM_get(ram, a) \in SignedWords

C2_Witness ==
    /\ ret.fn = "Register.set;get"
    /\ ret.args[1] = 2 ^ 19
    /\ ret.val = -(2 ^ 19)
    /\ RAM_get(ram, RAM_SIZE - 1) = -1
    /\ RAM_get(ram, 0) = -(2 ^ 19)

----------------------------------------------------------------------------
(* Direct calls of Bus.write and Bus.read                                   *)

\* number of direct calls of Bus.write
MaxBusWrites == 3

BusValues == {-1, 5, 7}

InitBus ==
    /\ InitCU
    /\ stdin = << >> /\ at = "test" /\ raised = "" /\ stdout = << >>
    /\ program = << >>
    /\ arg1 = 0 /\ arg2 = 0 /\ addr = 0
    /\ ret = NoCall /\ written = << >> /\ readback = << >>

Call_Bus_write ==
    \E value \in BusValues :
        /\ at = "test"
        /\ Len(written) < MaxBusWrites
        /\ bus' = Bus_write(bus, value)
        /\ written' = Append(written, value)
        /\ UNCHANGED <<pc, mar, mdr, cir, accumulator, ram, variables,
                       next_variable_address, pipeline_fetch, pipeline_decode,
                       runVars, arg1, arg2, addr, ret, readback>>

Call_Bus_read ==
    /\ at = "test"
    /\ IF bus = << >>
       THEN \* Queue.get() never returns
            /\ at' = "blocked"
            /\ UNCHANGED <<stdin, raised, stdout, program, cuVars, callVars>>
       ELSE /\ bus' = Bus_read(bus).data
            /\ readback' = Append(readback, Bus_read(bus).value)
            /\ UNCHANGED <<pc, mar, mdr, cir, accumulator, ram, variables,
                           next_variable_address, pipeline_fetch, pipeline_decode,
                           runVars, arg1, arg2, addr, ret, written>>

NextBus ==
    \/ Call_Bus_write
    \/ Call_Bus_read

SpecBus == InitBus /\ [][NextBus]_vars

\* C5: the bus is FIFO: as long as no read was issued on an empty bus, the
\* k-th read returned the value of the k-th write
C5_BusFifo ==
    /\ Len(readback) <= Len(written)
    /\ readback = SubSeq(written, 1, Len(readback))
    /\ bus = SubSeq(written, Len(readback) + 1, Len(written))

C5_Witness ==
    /\ written = <<5, -1, 7>>
    /\ readback = <<5, -1, 7>>
    /\ at = "test"

----------------------------------------------------------------------------
(* Runs of main on a program typed at the terminal                          *)

\* the longest program typed
MaxProg == 2

Name(c) == <<c>>

\* the lines DAT x 5 and DAT y -1: x is at address 99, y at 98
Declarations == <<Line(<<DAT, Name("x"), Typed(5)>>), Line(<<DAT, Name("y"), Typed(-1)>>)>>

\* the instruction lines typed: every mnemonic; an operand is the variable x
\* or the literal +1
InstrLines ==
    { Line(<<m, o>>) : m \in {LDA, STA, ADD, SUB, AND, OR, XOR},
                       o \in {Name("x"), <<"+", "1">>} }
    \cup {NOT, INP, OUT, HLT}

RECURSIVE ProgramsOfLength(_)
ProgramsOfLength(n) ==
    IF n = 0 THEN {<< >>}
    ELSE { Append(p, l) : p \in ProgramsOfLength(n - 1), l \in InstrLines }

Programs == UNION { ProgramsOfLength(n) : n \in 0 .. MaxProg }

\* INP; STA +2: the word typed at INP is stored at address 2 and is the next
\* instruction fetched, so that every opcode nibble and every operand runs
SelfModifying == <<INP, Line(<<STA, <<"+", "2">>>>)>>

OperandSamples == {0, 2, 3, RAM_SIZE - 2, RAM_SIZE - 1, RAM_SIZE, 65535}

TypedWords == { (op * (2 ^ 16)) + n : op \in 0 .. 15, n \in OperandSamples }

Terminal(prog, n) == Declarations \o prog \o <<END, Typed(n)>>

\* a program that fills the memory: RAM_SIZE lines NOT
FullProgram == [i \in 1 .. RAM_SIZE |-> NOT]

Init ==
    /\ InitCU
    /\ at = "load" /\ raised = "" /\ stdout = << >> /\ program = << >>
    /\ stdin \in { Terminal(p, 3) : p \in Programs }
                 \cup { Terminal(SelfModifying, w) : w \in TypedWords }
                 \cup { Terminal(FullProgram, 3) }
    /\ arg1 = 0 /\ arg2 = 0 /\ addr = 0
    /\ ret = NoCall /\ written = << >> /\ readback = << >>

Next == NextRun

Spec == Init /\ [][Next]_vars

\* the program of the end-to-end test, with x and y any two signed Words sampled
E2EValues == (Samples \cap SignedWords) \cup {5, 7}

E2EProgram(xv, yv) ==
    <<Line(<<DAT, Name("x"), Typed(xv)>>), Line(<<DAT, Name("y"), Typed(yv)>>),
      Line(<<LDA, Name("x")>>), Line(<<ADD, Name("y")>>), OUT, HLT, END>>

InitE2E ==
    /\ InitCU
    /\ at = "load" /\ raised = "" /\ stdout = << >> /\ program = << >>
    /\ arg1 \in E2EValues /\ arg2 \in E2EValues /\ addr = 0
    /\ stdin = E2EProgram(arg1, arg2)
    /\ ret = NoCall /\ written = << >> /\ readback = << >>

SpecE2E == InitE2E /\ [][NextRun]_vars

\* C9: with x and y declared by DAT and the program LDA x, ADD y, OUT, HLT, the
\* run emits exactly one output, the wrapped sum of x and y (12 for 5 and 7),
\* and ends by Halt, not by a fault, with PC = 4.  Until the exit the run is
\* loading, storing or in a stage of the clock (each of which has its step),
\* never blocked; PC counts the fetches, so the run is at most 4 ticks long;
\* nothing is printed but the sum
C9_EndToEnd ==
    /\ at \in {"load", "store", "fetch", "decode", "execute", "exit"}
    /\ raised \in {"", Halt}
    /\ at = "exit" <=> raised = Halt
    /\ Register_get(pc) <= 4
    /\ stdout \in {<< >>, <<Wrap(arg1 + arg2)>>}
    /\ at = "exit" =>
        /\ raised = Halt
        /\ stdout = <<Wrap(arg1 + arg2)>>
        /\ Register_get(pc) = 4
        /\ (arg1 = 5 /\ arg2 = 7) => stdout = <<12>>

C9_Witness ==
    /\ at = "exit" /\ raised = Halt
    /\ arg1 = (2 ^ 19) - 1 /\ arg2 = 1
    /\ stdout = <<-(2 ^ 19)>>
    /\ Register_get(pc) = 4

\* C10: no stage blocks on a Bus.read, and the bus is empty at the end of
\* every stage
C10_BusProtocol ==
    /\ at # "blocked"
    /\ bus = << >>

\* LDA x and then SUB 1 have run: the accumulator is 5 minus the word SUB 1
C10_Witness ==
    /\ at = "fetch"
    /\ bus = << >>
    /\ Register_get(pc) = 2
    /\ RAM_get(ram, 1) = (4 * (2 ^ 16)) + 1
    /\ Register_get(accumulator) = 5 - ((4 * (2 ^ 16)) + 1)

\* the decoded instruction, when there is one
Decoded(op) == pipeline_decode # NoneValue /\ pipeline_decode[1] = op
ValidAddresses == 0 .. RAM_SIZE - 1

\* C6: a write to address a stores the wrapped value at a and changes no other
\* cell: for the STA instruction, which also leaves the accumulator as it
\* was, and for the RAM.set calls of the loader (a DAT line, the program)
C6_Step ==
    /\ (at = "execute" /\ Decoded(instructions[STA]) /\ pipeline_decode[2] \in ValidAddresses)
        => /\ accumulator' = accumulator
           /\ RAM_get(ram', pipeline_decode[2]) = Wrap(Register_get(accumulator))
           /\ \A b \in ValidAddresses \ {pipeline_decode[2]} : ram'[b] = ram[b]
    /\ (at = "load" /\ next_variable_address' # next_variable_address)
        => /\ RAM_get(ram', next_variable_address) = Wrap(int(split(Head(stdin))[3]))
           /\ \A b \in ValidAddresses \ {next_variable_address} : ram'[b] = ram[b]
    /\ at = "store"
        => /\ \A b \in ValidAddresses :
                IF b < Len(program) THEN RAM_get(ram', b) = Wrap(program[b + 1])
                ELSE ram'[b] = ram[b]

C6_MemoryIsolation == [][C6_Step]_vars

\* INP 131074; STA 2: cell 2 holds the word, x and y are as declared
C6_Witness ==
    /\ at = "fetch"
    /\ Register_get(pc) = 2
    /\ Register_get(accumulator) = (2 * (2 ^ 16)) + 2
    /\ RAM_get(ram, 2) = (2 * (2 ^ 16)) + 2
    /\ RAM_get(ram, RAM_SIZE - 1) = 5
    /\ RAM_get(ram, RAM_SIZE - 2) = -1
    /\ RAM_get(ram, 1) = (2 * (2 ^ 16)) + 2

\* bits 16..19 of the 20-bit pattern of the signed Word w
Nibble(w) == (w % (2 ^ BIT_RESOLUTION)) \div (2 ^ 16)

\* C7: a tick that fetches a word whose opcode nibble is not 0x1..0xB ends
\* with the fault ValueError("Invalid opcode"), and leaves the accumulator and
\* every memory cell as they were at the start of the tick: fetch and decode
\* never change them, decode hands the nibble of the fetched word to execute,
\* and execute raises before it changes anything
C7_Step ==
    /\ at \in {"fetch", "decode"} => (accumulator' = accumulator /\ ram' = ram)
    /\ (at = "decode" /\ pipeline_fetch # NoneValue)
        => (pipeline_decode' # NoneValue
            /\ pipeline_decode'[1] = Nibble(pipeline_fetch[1]))
    /\ (at = "execute" /\ pipeline_decode # NoneValue /\ pipeline_decode[1] \notin 1 .. 11)
        => /\ raised' = InvalidOpcode
           /\ at' = "exit"
           /\ accumulator' = accumulator /\ ram' = ram

C7_FaultIsolation == [][C7_Step]_vars

\* the word 0xC0002 typed at INP, stored at 2 by STA and fetched from there
C7_Witness ==
    /\ raised = InvalidOpcode
    /\ at = "exit"
    /\ Decoded(12)
    /\ Register_get(pc) = 3
    /\ Register_get(accumulator) = Wrap((12 * (2 ^ 16)) + 2)
    /\ RAM_get(ram, 2) = Wrap((12 * (2 ^ 16)) + 2)

\* C8: HLT ends the run with SystemExit("Halt"), which is not the ValueError
\* of an unknown opcode, and no stage runs after it
C8_Step ==
    /\ (at = "execute" /\ Decoded(instructions[HLT]))
        => (raised' = Halt /\ at' = "exit")
    /\ (at = "execute" /\ pipeline_decode # NoneValue /\ pipeline_decode[1] \notin 1 .. 11)
        => (raised' # Halt /\ at' = "exit")
    /\ raised # Halt

C8_HaltIsFinal == [][C8_Step]_vars

\* OUT; HLT has run
C8_Witness ==
    /\ raised = Halt
    /\ at = "exit"
    /\ Decoded(instructions[HLT])
    /\ stdout = <<0>>
    /\ Register_get(pc) = 2

\* the opcodes whose operand is a memory address
MemoryOpcodes ==
    {instructions[LDA], instructions[STA], instructions[ADD], instructions[SUB],
     instructions[AND], instructions[OR], instructions[XOR]}

\* C11: an address outside 0..99 is a fatal fault: a fetch with PC outside
\* 0..99 and an LDA, STA, ADD, SUB, AND, OR or XOR whose operand is outside
\* 0..99 end the run with IndexError, which is not the SystemExit of HLT,
\* read and write no memory cell, and no stage runs after a fault
C11_Step ==
    /\ (at = "fetch" /\ Register_get(pc) \notin ValidAddresses)
        => /\ raised' = OutOfRange /\ raised' # Halt
           /\ at' = "exit"
           /\ ram' = ram /\ accumulator' = accumulator /\ mdr' = mdr
           /\ pipeline_fetch' = NoneValue
    /\ (at = "execute" /\ pipeline_decode # NoneValue
            /\ pipeline_decode[1] \in MemoryOpcodes
            /\ pipeline_decode[2] \notin ValidAddresses)
        => /\ raised' = OutOfRange /\ raised' # Halt
           /\ at' = "exit"
           /\ ram' = ram /\ accumulator' = accumulator
    /\ raised = ""

C11_AddressFault == [][C11_Step]_vars

\* the program of RAM_SIZE instructions has run and PC has left the memory
C11_Witness ==
    /\ raised = OutOfRange
    /\ at = "exit"
    /\ Register_get(pc) = RAM_SIZE
    /\ Register_get(mar) = RAM_SIZE


----------------------------------------------------------------------------
(* Runs of main on one instruction line after the declarations of x and y  *)

\* the operands typed: the declared names, and decimal literals with and
\* without a sign
LoadOperands ==
    {Name("x"), Name("y"), Typed(0), Typed(7), Typed(RAM_SIZE - 1), Typed(RAM_SIZE),
     <<"+", "7">>, Typed(-1)}

LoadLines ==
    { Line(<<m, o>>) : m \in DOMAIN instructions, o \in LoadOperands }

InitLoad ==
    /\ InitCU
    /\ at = "load" /\ raised = "" /\ stdout = << >> /\ program = << >>
    /\ stdin \in { Terminal(<<l>>, 3) : l \in LoadLines }
    /\ arg1 = 0 /\ arg2 = 0 /\ addr = 0
    /\ ret = NoCall /\ written = << >> /\ readback = << >>

SpecLoad == InitLoad /\ [][NextRun]_vars

\* the line the next turn of the loader reads, split at the spaces
NextLine == IF stdin = << >> THEN << >> ELSE split(Head(stdin))

\* C12: every line MNEMONIC OPERAND with a known mnemonic loads: for a decimal
\* literal n the loader appends (opcode << 16) | (n & 0xFFFF), for a declared
\* variable name it appends (opcode << 16) | (address of the variable), and in
\* both cases the loader goes on without raising.
C12_Step ==
    (/\ at = "load" /\ Len(NextLine) = 2
     /\ NextLine[1] \in DOMAIN instructions)
    => /\ IsIntLiteral(NextLine[2])
            => /\ program' = Append(program,
                      (instructions[NextLine[1]] * (2 ^ 16)) + (int(NextLine[2]) % (2 ^ 16)))
               /\ raised' = "" /\ at' = "load"
       /\ NextLine[2] \in DOMAIN variables
            => /\ program' = Append(program,
                      (instructions[NextLine[1]] * (2 ^ 16)) + variables[NextLine[2]])
               /\ raised' = "" /\ at' = "load"

C12_LoadsBothOperandForms == [][C12_Step]_vars


----------------------------------------------------------------------------
(* Runs of main on a list of declarations longer than the memory            *)

\* the number of DAT lines typed
MaxDat == 101

\* the k-th name declared: v1, v2, ...
VarName(k) == <<"v">> \o Typed(k)

\* the k-th line declares the k-th name with the value base + k
DatLines(base) ==
    [k \in 1 .. MaxDat |-> Line(<<DAT, VarName(k), Typed(base + k)>>)] \o <<END>>

DatBases == {0, -(2 ^ (BIT_RESOLUTION - 1)) - 1}

InitDat ==
    /\ InitCU
    /\ at = "load" /\ raised = "" /\ stdout = << >> /\ program = << >>
    /\ stdin \in { DatLines(base) : base \in DatBases }
    /\ arg1 = 0 /\ arg2 = 0 /\ addr = 0
    /\ ret = NoCall /\ written = << >> /\ readback = << >>

SpecDat == InitDat /\ [][NextRun]_vars

\* C13: the k-th DAT line binds its name to address 100 - k, a valid address
\* that no earlier declaration uses, stores the literal there and leaves the
\* stored value of every variable declared before as it was, however many
\* declarations there are.
C13_Step ==
    (/\ at = "load" /\ Len(NextLine) = 3
     /\ NextLine[1] = DAT /\ IsIntLiteral(NextLine[3]))
    => /\ raised' = "" /\ at' = "load"
       /\ NextLine[2] \in DOMAIN variables'
       /\ variables'[NextLine[2]] = RAM_SIZE - (Cardinality(DOMAIN variables) + 1)
       /\ variables'[NextLine[2]] \in ValidAddresses
       /\ \A n \in DOMAIN variables : variables[n] # variables'[NextLine[2]]
       /\ RAM_get(ram', variables'[NextLine[2]]) = Wrap(int(NextLine[3]))
       /\ \A n \in DOMAIN variables :
              RAM_get(ram', variables[n]) = RAM_get(ram, variables[n])

C13_DeclarationsNeverCollide == [][C13_Step]_vars


----------------------------------------------------------------------------
(* The stages of the clock *)

\* C14: a completed fetch from PC = p, 0 <= p <= 99, sets MAR = p,
\* MDR = memory[p], the fetched latch = memory[p] and PC = p + 1 and leaves the
\* accumulator, CIR and every memory cell as they were; decode and execute
\* never change PC, and PC is 0 until the clock starts, so PC counts the
\* completed fetches.
C14_Step ==
    /\ (at = "fetch" /\ at' = "decode")
        => /\ Register_get(pc) \in ValidAddresses
           /\ Register_get(mar') = Register_get(pc)
           /\ Register_get(mdr') = RAM_get(ram, Register_get(pc))
           /\ pipeline_fetch' = <<RAM_get(ram, Register_get(pc))>>
           /\ Register_get(pc') = Register_get(pc) + 1
           /\ accumulator' = accumulator /\ cir' = cir /\ ram' = ram
    /\ at \in {"decode", "execute"} => pc' = pc
    /\ at \in {"load", "store"} => (Register_get(pc) = 0 /\ pc' = pc)

C14_FetchStage == [][C14_Step]_vars

\* the second fetch of a program done: PC = 2, MAR = 1, MDR and the latch hold
\* the word of cell 1
C14_Witness ==
    /\ at = "decode"
    /\ Register_get(pc) = 2 /\ Register_get(mar) = 1
    /\ RAM_get(ram, 1) # 0
    /\ Register_get(mdr) = RAM_get(ram, 1)
    /\ pipeline_fetch = <<RAM_get(ram, 1)>>


\* the cell the last fetch read
Fetched == Register_get(pc) - 1

\* C15: a word (op << 16) | n stored in memory, fetched and decoded gives back
\* the pair (op, n): the word fetched is the signed reading of the cell,
\* negative exactly when op >= 8, and the decoded pair is a nibble and a
\* 16-bit operand whose word, stored in that cell, is the cell's content.
C15_EncodingRoundTrip ==
    /\ at = "decode"
        => /\ pipeline_fetch = <<to_signed(ram[Fetched])>>
           /\ pipeline_fetch[1] < 0 <=> (ram[Fetched] \div (2 ^ 16)) >= 8
    /\ (at = "execute" /\ pipeline_decode # NoneValue)
        => /\ pipeline_decode[1] \in 0 .. 15
           /\ pipeline_decode[2] \in 0 .. 65535
           /\ pipeline_decode[1] = ram[Fetched] \div (2 ^ 16)
           /\ pipeline_decode[2] = ram[Fetched] % (2 ^ 16)
           /\ RAM_set(ram, Fetched,
                      (pipeline_decode[1] * (2 ^ 16)) + pipeline_decode[2]) = ram

\* the word HLT 65535, typed at INP and stored in cell 2 by STA, is decoded:
\* it was fetched as a negative number
C15_Witness ==
    /\ at = "execute"
    /\ Fetched = 2
    /\ Register_get(accumulator) < 0
    /\ RAM_get(ram, 2) = Register_get(accumulator)
    /\ pipeline_decode = <<instructions[HLT], 65535>>


\* C16: one instruction in flight: at the start of every tick (and before the
\* clock starts) both latches are empty; between fetch and decode only the
\* fetched latch is occupied, with the word of the cell fetched in this tick;
\* between decode and execute only the decoded latch is occupied, with the
\* pair decoded from that same cell; the two latches are never both occupied.
C16_SingleInFlight ==
    /\ at \in {"load", "store", "fetch"}
        => (pipeline_fetch = NoneValue /\ pipeline_decode = NoneValue)
    /\ at = "decode"
        => /\ pipeline_fetch = <<RAM_get(ram, Fetched)>>
           /\ pipeline_decode = NoneValue
    /\ at = "execute"
        => /\ pipeline_fetch = NoneValue
           /\ pipeline_decode = <<ram[Fetched] \div (2 ^ 16), ram[Fetched] % (2 ^ 16)>>
    /\ pipeline_fetch = NoneValue \/ pipeline_decode = NoneValue

\* the third tick starts: two instructions went through both latches
C16_Witness ==
    /\ at = "fetch" /\ raised = ""
    /\ Register_get(pc) = 2
    /\ pipeline_fetch = NoneValue /\ pipeline_decode = NoneValue


\* bit i of the two's complement pattern of x
Bit(x, i) == (x \div (2 ^ i)) % 2

\* the 20-bit pattern that combines the patterns of a and b bit by bit
BitOf(f, p, q) ==
    CASE f = "and" -> p * q
      [] f = "or" -> (p + q) - (p * q)
      [] f = "xor" -> (p + q) % 2

RECURSIVE PatternOp(_, _, _, _)
PatternOp(f, a, b, i) ==
    IF i = BIT_RESOLUTION THEN 0
    ELSE (BitOf(f, Bit(a, i), Bit(b, i)) * (2 ^ i)) + PatternOp(f, a, b, i + 1)

\* what a memory-operand opcode leaves in the accumulator that held a, for the
\* memory word v
Expected(opcode, a, v) ==
    CASE opcode = instructions[LDA] -> v
      [] opcode = instructions[ADD] -> Wrap(a + v)
      [] opcode = instructions[SUB] -> Wrap(a - v)
      [] opcode = instructions[AND] -> Wrap(PatternOp("and", a, v, 0))
      [] opcode = instructions[OR] -> Wrap(PatternOp("or", a, v, 0))
      [] opcode = instructions[XOR] -> Wrap(PatternOp("xor", a, v, 0))

\* C17: with an operand m in 0..99, LDA leaves memory[m] in the accumulator and
\* ADD, SUB, AND, OR, XOR leave the sum, difference, bitwise and, or, exclusive
\* or of the old accumulator and memory[m], wrapped to a signed Word; the step
\* changes neither a memory cell nor the PC, and the next tick starts.
C17_Step ==
    (/\ at = "execute" /\ pipeline_decode # NoneValue
     /\ pipeline_decode[1] \in MemoryOpcodes \ {instructions[STA]}
     /\ pipeline_decode[2] \in ValidAddresses)
    => /\ Register_get(accumulator')
            = Expected(pipeline_decode[1], Register_get(accumulator),
                       RAM_get(ram, pipeline_decode[2]))
       /\ ram' = ram /\ pc' = pc
       /\ at' = "fetch" /\ raised' = ""

C17_MemoryOperandOpcodes == [][C17_Step]_vars

\* LDA x; SUB +1 done: the accumulator holds 5 minus the word of cell 1
C17_Witness ==
    /\ at = "fetch" /\ Register_get(pc) = 2
    /\ RAM_get(ram, 0) = (instructions[LDA] * (2 ^ 16)) + (RAM_SIZE - 1)
    /\ RAM_get(ram, 1) = (instructions[SUB] * (2 ^ 16)) + 1
    /\ Register_get(accumulator) = 5 - RAM_get(ram, 1)


----------------------------------------------------------------------------
(* Runs of the program INP, NOT, OUT, HLT on a typed signed Word *)

NotProgram(v) == <<INP, NOT, OUT, HLT, END, Typed(v)>>

InitNot ==
    /\ InitCU
    /\ at = "load" /\ raised = "" /\ stdout = << >> /\ program = << >>
    /\ arg1 \in E2EValues /\ arg2 = 0 /\ addr = 0
    /\ stdin = NotProgram(arg1)
    /\ ret = NoCall /\ written = << >> /\ readback = << >>

SpecNot == InitNot /\ [][NextRun]_vars

\* C18: executing NOT with the signed Word a in the accumulator leaves -a - 1
\* there, the one's complement of a's 20-bit pattern read as a signed Word,
\* and changes neither a memory cell nor the PC.
C18_Step ==
    (at = "execute" /\ Decoded(instructions[NOT]))
    => /\ Register_get(accumulator) \in SignedWords
       /\ Register_get(accumulator') = (-Register_get(accumulator)) - 1
       /\ Register_get(accumulator') \in SignedWords
       /\ to_unsigned(Register_get(accumulator'))
            = ((2 ^ BIT_RESOLUTION) - 1) - to_unsigned(Register_get(accumulator))
       /\ ram' = ram /\ pc' = pc
       /\ at' = "fetch" /\ raised' = ""

C18_NotInstruction == [][C18_Step]_vars

\* -524288 was typed: NOT left 524287, OUT printed it, HLT ended the run
C18_Witness ==
    /\ at = "exit" /\ raised = Halt
    /\ arg1 = -(2 ^ (BIT_RESOLUTION - 1))
    /\ stdout = <<(2 ^ (BIT_RESOLUTION - 1)) - 1>>


----------------------------------------------------------------------------
(* The bitwise functions of the ALU *)

\* the same operator on the 20-bit unsigned patterns, converted with to_signed
OnPatterns(fn, a, b) ==
    CASE fn = "ALU.and_" -> to_signed(BitAnd(to_unsigned(a), to_unsigned(b)))
      [] fn = "ALU.or_" -> to_signed(BitOr(to_unsigned(a), to_unsigned(b)))
      [] fn = "ALU.xor_" -> to_signed(BitXor(to_unsigned(a), to_unsigned(b)))

BitwiseName(fn) ==
    CASE fn = "ALU.and_" -> "and" [] fn = "ALU.or_" -> "or" [] fn = "ALU.xor_" -> "xor"

\* C19: on signed Words a and b, negative ones included, ALU.and_, ALU.or_ and
\* ALU.xor_, computed on the signed integers, return a signed Word, the one
\* that the same operator gives on the unsigned patterns to_unsigned(a) and
\* to_unsigned(b) after to_signed; it is the bit-by-bit combination of the two
\* 20-bit patterns.
C19_BitwiseWidthAgreement ==
    (/\ ret.fn \in {"ALU.and_", "ALU.or_", "ALU.xor_"}
     /\ ret.args[1] \in SignedWords /\ ret.args[2] \in SignedWords)
    => /\ ret.val \in SignedWords
       /\ ret.val = OnPatterns(ret.fn, ret.args[1], ret.args[2])
       /\ ret.val = Wrap(PatternOp(BitwiseName(ret.fn), ret.args[1], ret.args[2], 0))

\* two negative operands: and_(-1, -524288) = -524288
C19_Witness ==
    /\ ret.fn = "ALU.and_"
    /\ ret.args = <<-1, -(2 ^ (BIT_RESOLUTION - 1))>>
    /\ ret.val = -(2 ^ (BIT_RESOLUTION - 1))


----------------------------------------------------------------------------
(* The end of the clock loop *)

\* the ways the run of the clock ends: HLT, or a fatal fault
Endings == {Halt, InvalidOpcode, OutOfRange}

\* C20: the clock loop ends after at most RAM_SIZE + 1 ticks, with Halt or a
\* fatal fault, provided every INP finds an input: the PC, which is the
\* number of ticks started before, never exceeds RAM_SIZE; while it is below
\* RAM_SIZE a fetch completes and adds exactly 1 to it, and at RAM_SIZE the
\* fetch is a fatal fault; decode always completes; execute completes or ends
\* the run with Halt or a fault, and leaves the PC alone; no stage waits
\* forever, and a run that is over ended with Halt or a fatal fault unless an
\* INP found no input.
C20_Termination ==
    /\ at # "blocked"
    /\ Register_get(pc) \in 0 .. RAM_SIZE
    /\ at = "fetch"
        => IF Register_get(pc) < RAM_SIZE
           THEN /\ CU_fetch(Machine).stop = ""
                /\ Register_get(CU_fetch(Machine).pc) = Register_get(pc) + 1
           ELSE CU_fetch(Machine).stop = OutOfRange
    /\ at = "decode"
        => (CU_decode(Machine).stop = "" /\ CU_decode(Machine).pc = pc)
    /\ at = "execute"
        => /\ CU_execute(Machine).pc = pc
           /\ \/ CU_execute(Machine).stop \in {""} \cup Endings
              \/ /\ CU_execute(Machine).stop = EOFError
                 /\ Decoded(instructions[INP]) /\ stdin = << >>
    /\ at = "exit"
        => \/ raised \in Endings
           \/ raised = EOFError /\ Decoded(instructions[INP]) /\ stdin = << >>

\* the program of 100 lines NOT, which has no HLT, ended in its 101st tick
C20_Witness ==
    /\ at = "exit" /\ raised = OutOfRange
    /\ Register_get(pc) = RAM_SIZE
    /\ \A a \in ValidAddresses : RAM_get(ram, a) = instructions[NOT] * (2 ^ 16)
    /\ Register_get(accumulator) = 0

====
